---- MODULE Spec2Model ----
(***************************************************************************)
(* A model of the CodeLens RAG service: the chunker, the embedder          *)
(* singleton, the Qdrant collection, the ingestion and search pipeline,    *)
(* the answer generator, the URL and PDF loaders and the HTTP handlers     *)
(* that drive them from the server's worker threads.                       *)
(*                                                                         *)
(* A text is a sequence of one-character strings.  The embedding model,   *)
(* the Qdrant server, the Groq API, the web and the PDF reader are the     *)
(* environment: each of their calls either answers or raises.              *)
(***************************************************************************)
EXTENDS Integers, Sequences, FiniteSets, TLC

(***************************************************************************)
(* Bounds of the model.                                                    *)
(***************************************************************************)
\* requests (and scheduler firings) accepted over one run of the process
MaxRequests == 2
\* calls of an external service that raise over one run of the process
MaxFaults == 1
\* largest batch_size passed explicitly to add_document
MaxBatchSize == 2
\* the longest text given to chunk_text on its own
MaxTextLen == 4
\* the largest chunk_size given to chunk_text on its own
MaxChunkSize == 3
\* the largest overlap given to chunk_text on its own
MaxOverlap == 3

(***************************************************************************)
(* Program constants.                                                      *)
(***************************************************************************)
COLLECTION_NAME == "codelens_docs"
CHUNK_SIZE == 800
CHUNK_OVERLAP == 100
DEFAULT_BATCH_SIZE == 10
DEFAULT_TOP_K == 3
MIN_PAGE_CHARS == 100
MIN_PDF_CHARS == 100
PREVIEW_CHARS == 200

Min(a, b) == IF a < b THEN a ELSE b

\* n copies of the character c
Rep(c, n) == [i \in 1..n |-> c]

\* Python's None where a text is expected
NoneText == <<"None">>

\* the characters str.strip() removes
Whitespace == {" ", "\n", "\t"}

(***************************************************************************)
(* Python string operations.                                               *)
(***************************************************************************)
\* text[start:end] with Python's treatment of negative and oversized indices
Slice(text, start, end) ==
    LET n  == Len(text)
        ns == IF start < 0 THEN (IF start + n < 0 THEN 0 ELSE start + n)
              ELSE Min(start, n)
        ne == IF end < 0 THEN (IF end + n < 0 THEN 0 ELSE end + n)
              ELSE Min(end, n)
    IN  IF ns >= ne THEN <<>> ELSE SubSeq(text, ns + 1, ne)

\* str.strip(): drop leading and trailing whitespace
strip(s) ==
    LET keep == {i \in 1..Len(s) : s[i] \notin Whitespace}
    IN  IF keep = {} THEN <<>>
        ELSE LET lo == CHOOSE i \in keep : \A j \in keep : i <= j
                 hi == CHOOSE i \in keep :
                           \A j \in (i + 1)..Len(s) : s[j] \in Whitespace
             IN  SubSeq(s, lo, hi)

(***************************************************************************)
(* chunker.py                                                              *)
(***************************************************************************)
\* chunk_loop without the test that drops a chunk empty after the strip
RECURSIVE chunk_loop_keeps_empty(_, _, _, _, _)
chunk_loop_keeps_empty(text, chunk_size, overlap, start, chunks) ==
    IF ~(start < Len(text)) THEN chunks
    ELSE LET end    == Min(start + chunk_size, Len(text))
             added  == Append(chunks, strip(Slice(text, start, end)))
         IN  IF chunk_size <= overlap THEN added
             ELSE chunk_loop_keeps_empty(text, chunk_size, overlap,
                                         start + (chunk_size - overlap), added)

RECURSIVE chunk_loop(_, _, _, _, _)
chunk_loop(text, chunk_size, overlap, start, chunks) ==
    IF ~(start < Len(text)) THEN chunks
    ELSE LET end    == Min(start + chunk_size, Len(text))
             chunk  == strip(Slice(text, start, end))
             added  == IF chunk # <<>> THEN Append(chunks, chunk) ELSE chunks
         IN  IF chunk_size <= overlap THEN added
             ELSE chunk_loop(text, chunk_size, overlap,
                             start + (chunk_size - overlap), added)

chunk_text(text, chunk_size, overlap) ==
    IF text = NoneText \/ Len(text) = 0 THEN <<>>
    ELSE chunk_loop(text, chunk_size, overlap, 0, <<>>)

(***************************************************************************)
(* The environment: the web, the PDF files and the request inputs.         *)
(***************************************************************************)
\* main.py PREDEFINED_SOURCES
PREDEFINED_SOURCES ==
    [fastapi   |-> << "https://fastapi.tiangolo.com/",
                      "https://fastapi.tiangolo.com/tutorial/",
                      "https://fastapi.tiangolo.com/advanced/" >>,
     langchain |-> << "https://python.langchain.com/docs/get_started/introduction",
                      "https://python.langchain.com/docs/modules/model_io/" >>,
     pydantic  |-> << "https://docs.pydantic.dev/latest/",
                      "https://docs.pydantic.dev/latest/concepts/models/" >>]

\* list(PREDEFINED_SOURCES.keys()), in insertion order
PredefinedKeys == << "fastapi", "langchain", "pydantic" >>

\* a page whose extracted text has exactly MIN_PAGE_CHARS characters
ShortUrl == "https://example.com/short"

\* What BeautifulSoup finds in the page at url: the title string (the url
\* when the page has no title element), the get_text() of each p, pre, code
\* and li element, and the get_text() of the whole page.
Page(url) ==
    IF url = ShortUrl
    THEN [title |-> "Short", elements |-> << Rep("a", 20), Rep("b", 5) >>,
          all_text |-> Rep("s", 48) \o << " ", "\n", " " >> \o Rep("t", 51)]
    ELSE [title |-> url,
          elements |-> << << " " >> \o Rep("a", 60) \o << "\n" >>, Rep("b", 20),
                          Rep("c", 40) >>,
          all_text |-> Rep("x", 10)]

\* The uploaded files: whether PdfReader can open the file, and what
\* extract_text() gives for each page.
PdfFiles ==
    [short   |-> [readable |-> TRUE,  pages |-> << Rep("a", 50) >>],
     edge    |-> [readable |-> TRUE,
                  pages |-> << Rep("a", 48), Rep("b", 49) >>],
     ok      |-> [readable |-> TRUE,
                  pages |-> << Rep("a", 49), <<>>, Rep("b", 49) >>],
     blank   |-> [readable |-> TRUE,  pages |-> << Rep(" ", 100) >>],
     corrupt |-> [readable |-> FALSE, pages |-> <<>>]]

\* a text of three chunks, with whitespace on the chunk boundaries
ThreeChunkText ==
    Rep("a", 798) \o Rep(" ", 4) \o Rep("b", 598) \o << " " >> \o Rep("c", 2)

\* the texts POST /add_document is sent
RequestTexts == { <<>>, Rep(" ", 3), << "h", "i", " " >> }

\* metadata=None, and `metadata or {}` for an empty mapping
NoMeta == <<>>

Metadatas ==
    { NoMeta, [source |-> "manual_upload"],
      [chunk_index |-> 7, text |-> << "x" >>] }


BatchSizes == (1..MaxBatchSize) \cup {DEFAULT_BATCH_SIZE}

\* the texts add_document is called with directly, by name
LibTexts ==
    [none |-> NoneText, empty |-> <<>>, blank |-> Rep(" ", 3),
     three |-> ThreeChunkText]

\* the arguments add_document is called with directly: the texts without
\* chunks, and the text of three chunks with every metadata and batch size
AddDocumentArgs ==
    ({"none", "empty", "blank"} \X {NoMeta} \X {DEFAULT_BATCH_SIZE})
        \cup ({"three"} \X Metadatas \X BatchSizes)

TopKs == {1, DEFAULT_TOP_K}

UrlLists == { << ShortUrl, PREDEFINED_SOURCES.pydantic[1] >> }

(***************************************************************************)
(* updater.py fetch_page_text: the text extraction.                        *)
(***************************************************************************)
\* "sep".join(parts)
RECURSIVE Join(_, _)
Join(parts, sep) ==
    IF Len(parts) = 0 THEN <<>>
    ELSE IF Len(parts) = 1 THEN parts[1]
    ELSE parts[1] \o sep \o Join(Tail(parts), sep)

\* str.split(): the maximal runs of characters that are not whitespace
RECURSIVE split(_)
split(s) ==
    LET keep == {i \in 1..Len(s) : s[i] \notin Whitespace}
    IN  IF keep = {} THEN <<>>
        ELSE LET lo   == CHOOSE i \in keep : \A j \in keep : i <= j
                 gaps == {i \in lo..Len(s) : s[i] \in Whitespace}
                 hi   == IF gaps = {} THEN Len(s)
                         ELSE (CHOOSE i \in gaps : \A j \in gaps : i <= j) - 1
             IN  << SubSeq(s, lo, hi) >> \o split(SubSeq(s, hi + 1, Len(s)))

\* " ".join(s.split()): runs of whitespace become one space, and the
\* whitespace at both ends goes
collapse_whitespace(s) == Join(split(s), << " " >>)

\* the elements kept: stripped, and longer than 20 characters
RECURSIVE text_parts(_)
text_parts(elements) ==
    IF elements = <<>> THEN <<>>
    ELSE LET text == strip(Head(elements))
         IN  (IF Len(text) > 20 THEN << text >> ELSE <<>>)
             \o text_parts(Tail(elements))

\* the record fetch_page_text returns for a page that was fetched and parsed
page_record(url) ==
    LET page  == Page(url)
        parts == text_parts(page.elements)
        used  == IF parts = <<>> THEN << page.all_text >> ELSE parts
    IN  [url |-> url,
         text |-> collapse_whitespace(Join(used, << "\n", "\n" >>)),
         title |-> page.title]

\* the record fetch_page_text returns when the request or the parse raised
error_record(url, e) == [url |-> url, text |-> <<>>, title |-> "", error |-> e]

(***************************************************************************)
(* The state.                                                              *)
(***************************************************************************)
VARIABLES
    app,                \* "starting", "serving", "failed"; "library" without HTTP
    collections,        \* the names of the collections on the Qdrant server
    points,             \* the points of COLLECTION_NAME, in the order written
    create_requests,    \* create_collection requests sent to the server
    embedder_instance,  \* embedder.py _embedder_instance: 0 is None
    ctor_runs,          \* how many times Embedder.__init__ has run
    uuids,              \* uuid4 values drawn so far
    last_update_time,   \* main.py last_update_time: 0 is None
    pool_size,          \* how many threads the server runs calls on at a time
    th,                 \* each thread's running call and its locals
    requests,           \* requests accepted so far
    faults              \* external calls that have raised so far

vars == << app, collections, points, create_requests, embedder_instance,
           ctor_runs, uuids, last_update_time, pool_size, th, requests,
           faults >>

\* the server's worker threads (request handlers, background tasks, the
\* scheduler's executor)
Threads == {"w1", "w2"}

NoResp == [code |-> 0]
NoRet == [status |-> "none"]

\* update_from_urls: the results dict before the loop
new_results(urls) ==
    [total_urls |-> Len(urls), successful |-> 0, failed |-> 0,
     total_chunks |-> 0, details |-> <<>>]

IdleFrame ==
    [op |-> "idle", pc |-> "idle", call_id |-> 0, http |-> NoResp,
     \* add_document
     text |-> <<>>, chunks |-> <<>>, metadata |-> NoMeta, batch_size |-> 0,
     batch_start |-> 0,
     total_uploaded |-> 0, embeds |-> 0, upserts |-> 0, ad_calls |-> 0,
     ad_ret |-> -1, ad_exc |-> "", embedder |-> 0,
     \* chunk_text called on its own
     chunk_size |-> 0, overlap |-> 0, start |-> 0, iters |-> 0,
     \* update_from_urls
     urls |-> <<>>, i |-> 0, results |-> new_results(<<>>),
     \* the positions in urls of the urls whose fetch or parse raised
     fetch_failed |-> {},
     \* update_predefined_source: the source asked for
     source |-> "",
     \* load_pdf
     file_path |-> <<>>, num_pages |-> 0, text_length |-> 0,
     \* generate_answer and search_documents
     top_k |-> 0, hits |-> -1, sources |-> <<>>, llm_calls |-> 0,
     \* the last call of a service that raised in this call ("" for none)
     fault |-> "",
     \* what the outermost function returned, or the exception it raised
     ret |-> NoRet, exc |-> ""]

\* the operations that run update_from_urls
UrlOps == {"update_urls", "update_url", "update_predefined", "scheduled_job"}
\* those of them that run after the response, or without one
BackgroundOps == {"update_urls", "update_predefined", "scheduled_job"}

Idle(t) == th[t].pc \in {"idle", "done"}

\* an external call may raise while the budget of faults lasts
CanFail == faults < MaxFaults

(***************************************************************************)
(* What the caller does with the outcome of a call.  Each operator gives   *)
(* the thread's frame after the callee has returned or raised and the      *)
(* caller has run on to its next call of a service, or to its end.         *)
(***************************************************************************)
\* update_from_urls returns results (updater.py line 158) to its caller
update_from_urls_returns(f) ==
    IF f.op = "update_url"
    THEN \* main.py update_url: return result
         [f EXCEPT !.pc = "done", !.ret = f.results,
                   !.http = [code |-> 200, body |-> f.results]]
    ELSE [f EXCEPT !.pc = "done", !.ret = f.results]

\* update_from_urls raises (only init_collection can make it)
update_from_urls_raises(f, e) ==
    IF f.op = "update_url"
    THEN \* main.py update_url: except Exception -> HTTPException(500)
         [f EXCEPT !.pc = "done", !.exc = e,
                   !.http = [code |-> 500, body |-> [detail |-> e]]]
    ELSE [f EXCEPT !.pc = "done", !.exc = e]

\* the end of one iteration of the loop over urls: the next url, or the end
next_url(f) ==
    IF f.i < Len(f.urls)
    THEN [f EXCEPT !.i = f.i + 1, !.pc = "uf_fetch"]
    ELSE update_from_urls_returns(f)

\* add_document returns n to its caller
add_document_returns(f, n) ==
    LET g == [f EXCEPT !.ad_ret = n] IN
    CASE f.op = "add_doc" ->
           \* main.py add_doc: the success payload
           [g EXCEPT !.pc = "done",
                     !.http = [code |-> 200,
                               body |-> [status |-> "success", chunks_added |-> n,
                                         source |-> f.metadata.source]]]
      [] f.op \in UrlOps ->
           \* updater.py lines 119-125
           next_url([g EXCEPT
               !.results = [f.results EXCEPT
                   !.successful = @ + 1,
                   !.total_chunks = @ + n,
                   !.details = Append(@, [url |-> f.urls[f.i],
                                          status |-> "success", chunks |-> n])]])
      [] f.op = "upload_pdf" ->
           \* pdf_loader.py lines 62-68, then main.py upload_pdf: return result
           LET result == [status |-> "success", file |-> f.file_path,
                          pages |-> f.num_pages, chunks_added |-> n,
                          text_length |-> f.text_length]
           IN  [g EXCEPT !.pc = "done", !.ret = result,
                         !.http = [code |-> 200, body |-> result]]
      [] OTHER -> [g EXCEPT !.pc = "done"]

\* add_document_raises with main.py add_doc answering the error in a
\* payload instead of raising HTTPException(500)
add_document_raises_degraded(f, e) ==
    LET g == [f EXCEPT !.ad_exc = e] IN
    CASE f.op = "add_doc" ->
           [g EXCEPT !.pc = "done",
                     !.http = [code |-> 200,
                               body |-> [status |-> "failed", error |-> e]]]
      [] f.op \in UrlOps ->
           next_url([g EXCEPT
               !.results = [f.results EXCEPT
                   !.failed = @ + 1,
                   !.details = Append(@, [url |-> f.urls[f.i],
                                          status |-> "failed", error |-> e])]])
      [] f.op = "upload_pdf" ->
           LET result == [status |-> "failed", error |-> e]
           IN  [g EXCEPT !.pc = "done", !.ret = result,
                         !.http = [code |-> 200, body |-> result]]
      [] OTHER -> [g EXCEPT !.pc = "done", !.exc = e]

\* add_document_raises with update_from_urls lacking its try around
\* add_document: the error leaves the loop
add_document_raises_uncaught(f, e) ==
    LET g == [f EXCEPT !.ad_exc = e] IN
    CASE f.op = "add_doc" ->
           [g EXCEPT !.pc = "done",
                     !.http = [code |-> 500, body |-> [detail |-> e]]]
      [] f.op \in UrlOps -> update_from_urls_raises(g, e)
      [] f.op = "upload_pdf" ->
           LET result == [status |-> "failed", error |-> e]
           IN  [g EXCEPT !.pc = "done", !.ret = result,
                         !.http = [code |-> 200, body |-> result]]
      [] OTHER -> [g EXCEPT !.pc = "done", !.exc = e]

\* add_document raises e to its caller
add_document_raises(f, e) ==
    LET g == [f EXCEPT !.ad_exc = e] IN
    CASE f.op = "add_doc" ->
           \* main.py add_doc: except Exception -> HTTPException(500)
           [g EXCEPT !.pc = "done",
                     !.http = [code |-> 500, body |-> [detail |-> e]]]
      [] f.op \in UrlOps ->
           \* updater.py lines 129-136
           next_url([g EXCEPT
               !.results = [f.results EXCEPT
                   !.failed = @ + 1,
                   !.details = Append(@, [url |-> f.urls[f.i],
                                          status |-> "failed", error |-> e])]])
      [] f.op = "upload_pdf" ->
           \* pdf_loader.py lines 70-75, then main.py upload_pdf: return result
           LET result == [status |-> "failed", error |-> e]
           IN  [g EXCEPT !.pc = "done", !.ret = result,
                         !.http = [code |-> 200, body |-> result]]
      [] OTHER -> [g EXCEPT !.pc = "done", !.exc = e]

\* add_document(text, metadata, batch_size) up to its first use of a
\* service: chunk the text; without chunks return 0, else go for the embedder
enter_add_document(f, text, metadata, batch_size) ==
    LET chunks == chunk_text(text, CHUNK_SIZE, CHUNK_OVERLAP)
        g == [f EXCEPT !.text = text, !.chunks = chunks, !.metadata = metadata,
                       !.batch_size = batch_size, !.batch_start = 0,
                       !.total_uploaded = 0, !.embeds = 0, !.upserts = 0,
                       !.ad_calls = f.ad_calls + 1,
                       !.ad_ret = -1, !.ad_exc = ""]
    IN  IF chunks = <<>> THEN add_document_returns(g, 0)
        ELSE [g EXCEPT !.pc = "ge_check"]

\* the answer generate_answer gives without context (generator.py lines 26-30)
no_context_answer ==
    [answer |-> "I don't have enough information to answer that question. Please update the knowledge base.",
     sources |-> <<>>, context_used |-> FALSE]

\* generate_answer returns result; main.py ask returns it
generate_answer_returns(f, result) ==
    [f EXCEPT !.pc = "done", !.ret = result,
              !.http = [code |-> 200, body |-> result]]

\* one entry of generate_answer's sources (generator.py lines 38-42); the
\* similarity score Qdrant computes is not modelled
source_entry(result) ==
    [source |-> result.source,
     text_preview |-> IF Len(result.text) > PREVIEW_CHARS
                      THEN SubSeq(result.text, 1, PREVIEW_CHARS) \o << ".", ".", "." >>
                      ELSE result.text]

\* search_documents_returns with generate_answer lacking its test for an
\* empty result
search_documents_returns_always_llm(f, results) ==
    LET g == [f EXCEPT !.hits = Len(results)] IN
    IF f.op = "ask"
    THEN [g EXCEPT !.pc = "ga_llm",
                   !.sources = [k \in 1..Len(results) |-> source_entry(results[k])]]
    ELSE [g EXCEPT !.pc = "done", !.ret = [results |-> results]]

\* search_documents returns results to its caller
search_documents_returns(f, results) ==
    LET g == [f EXCEPT !.hits = Len(results)] IN
    IF f.op = "ask"
    THEN IF results = <<>>
         THEN generate_answer_returns(g, no_context_answer)
         ELSE [g EXCEPT !.pc = "ga_llm",
                        !.sources = [k \in 1..Len(results) |-> source_entry(results[k])]]
    ELSE [g EXCEPT !.pc = "done", !.ret = [results |-> results]]

\* get_embedder returns instance k to its caller
get_embedder_returns(f, k) ==
    IF f.op \in {"ask", "call_search_documents"}
    THEN [f EXCEPT !.embedder = k, !.pc = "sd_embed"]
    ELSE [f EXCEPT !.embedder = k, !.pc = "ad_embed"]

\* get_embedder_raises with search_documents calling get_embedder outside
\* its try
get_embedder_raises_uncaught(f, e) ==
    IF f.op \in {"ask", "call_search_documents"}
    THEN [f EXCEPT !.pc = "done", !.exc = e,
                   !.http = IF f.op = "ask"
                            THEN [code |-> 500, body |-> [detail |-> e]]
                            ELSE f.http]
    ELSE add_document_raises(f, e)

\* get_embedder raises e: search_documents catches it and returns [],
\* add_document prints and raises it again
get_embedder_raises(f, e) ==
    IF f.op \in {"ask", "call_search_documents"}
    THEN search_documents_returns(f, <<>>)
    ELSE add_document_raises(f, e)

\* os.path.basename of a path given by its components
basename(path) == path[Len(path)]

\* the pages whose extract_text() is not empty
RECURSIVE pdf_text_parts(_)
pdf_text_parts(pages) ==
    IF pages = <<>> THEN <<>>
    ELSE (IF Head(pages) # <<>> THEN << Head(pages) >> ELSE <<>>)
         \o pdf_text_parts(Tail(pages))

\* load_pdf_body without the test of the length of the extracted text
load_pdf_body_no_threshold(f) ==
    LET name == basename(f.file_path)
        pdf  == PdfFiles[name]
        fail(e) == LET result == [status |-> "failed", error |-> e]
                   IN  [f EXCEPT !.pc = "done", !.ret = result,
                                 !.http = [code |-> 200, body |-> result]]
        num_pages == Len(pdf.pages)
        full_text == Join(pdf_text_parts(pdf.pages), << "\n", "\n" >>)
    IN  IF ~pdf.readable THEN fail("PdfReadError")
        ELSE enter_add_document(
                 [f EXCEPT !.num_pages = num_pages,
                           !.text_length = Len(full_text)],
                 full_text,
                 [source |-> name, type |-> "pdf", pages |-> num_pages,
                  file_path |-> f.file_path],
                 DEFAULT_BATCH_SIZE)

\* load_pdf after init_collection (pdf_loader.py lines 19-58): read the
\* file; an unreadable file raises into load_pdf's own except clause
load_pdf_body(f) ==
    LET name == basename(f.file_path)
        pdf  == PdfFiles[name]
        fail(e) == LET result == [status |-> "failed", error |-> e]
                   IN  [f EXCEPT !.pc = "done", !.ret = result,
                                 !.http = [code |-> 200, body |-> result]]
        num_pages == Len(pdf.pages)
        full_text == Join(pdf_text_parts(pdf.pages), << "\n", "\n" >>)
    IN  IF ~pdf.readable THEN fail("PdfReadError")
        ELSE IF full_text = <<>> \/ Len(full_text) < MIN_PDF_CHARS
        THEN fail("Insufficient text extracted from PDF")
        ELSE enter_add_document(
                 [f EXCEPT !.num_pages = num_pages,
                           !.text_length = Len(full_text)],
                 full_text,
                 [source |-> name, type |-> "pdf", pages |-> num_pages,
                  file_path |-> f.file_path],
                 DEFAULT_BATCH_SIZE)

\* init_collection returns to its caller
init_collection_returns(f) ==
    CASE f.op \in UrlOps ->
           \* updater.py lines 93-101: the results dict, then the loop
           next_url([f EXCEPT !.results = new_results(f.urls), !.i = 0])
      [] f.op = "upload_pdf" -> load_pdf_body(f)
      [] OTHER -> [f EXCEPT !.pc = "done"]

\* init_collection prints and raises e again
init_collection_raises(f, e) ==
    CASE f.op \in UrlOps -> update_from_urls_raises(f, e)
      [] f.op = "upload_pdf" ->
           \* pdf_loader.py lines 70-75: load_pdf's except clause
           LET result == [status |-> "failed", error |-> e]
           IN  [f EXCEPT !.pc = "done", !.ret = result,
                         !.http = [code |-> 200, body |-> result]]
      [] OTHER -> [f EXCEPT !.pc = "done", !.exc = e]

(***************************************************************************)
(* The steps of a running call.  A step ends at the thread's next call of  *)
(* a shared or external service.                                           *)
(***************************************************************************)
\* main.py scheduled_update_job: last_update_time = datetime.now() once
\* update_from_urls has returned; the time is the count of requests so far
job_time(f, g) ==
    IF f.op = "scheduled_job" /\ g.pc = "done" /\ g.exc = ""
    THEN requests ELSE last_update_time

\* main.py startup_event: the application serves once init_collection has
\* returned, and does not start when it raised
app_after(f, g) ==
    IF f.op = "startup" /\ g.pc = "done"
    THEN (IF g.exc = "" THEN "serving" ELSE "failed")
    ELSE app

\* thread t goes from frame th[t] to frame g
Goes(t, g) ==
    /\ th' = [th EXCEPT ![t] = g]
    /\ UNCHANGED pool_size
    /\ app' = app_after(th[t], g)
    /\ last_update_time' = job_time(th[t], g)

\* init_collection_list without the test for an existing collection
init_collection_list_always_creates(f) == [f EXCEPT !.pc = "ic_create"]

\* retriever.py init_collection, lines 24-29: list the collections
init_collection_list(f) ==
    IF COLLECTION_NAME \in collections
    THEN init_collection_returns(f)
    ELSE [f EXCEPT !.pc = "ic_create"]

IcList(t) ==
    /\ th[t].pc = "ic_list"
    /\ Goes(t, init_collection_list(th[t]))
    /\ UNCHANGED << collections, points, create_requests, embedder_instance,
                    ctor_runs, uuids, requests, faults >>

IcListFails(t) ==
    /\ th[t].pc = "ic_list"
    /\ CanFail
    /\ faults' = faults + 1
    /\ Goes(t, init_collection_raises([th[t] EXCEPT !.fault = "get_collections"],
                                     "get_collections failed"))
    /\ UNCHANGED << collections, points, create_requests, embedder_instance,
                    ctor_runs, uuids, requests >>

\* retriever.py init_collection, lines 32-38: create the collection; Qdrant
\* refuses to create a collection that exists
IcCreate(t) ==
    /\ th[t].pc = "ic_create"
    /\ create_requests' = create_requests + 1
    /\ IF COLLECTION_NAME \in collections
       THEN /\ Goes(t, init_collection_raises(
                            [th[t] EXCEPT !.fault = "create_collection"],
                            "collection already exists"))
            /\ UNCHANGED collections
       ELSE /\ collections' = collections \cup {COLLECTION_NAME}
            /\ Goes(t, init_collection_returns(th[t]))
    /\ UNCHANGED << points, embedder_instance, ctor_runs, uuids, requests,
                    faults >>

IcCreateFails(t) ==
    /\ th[t].pc = "ic_create"
    /\ CanFail
    /\ faults' = faults + 1
    /\ create_requests' = create_requests + 1
    /\ Goes(t, init_collection_raises([th[t] EXCEPT !.fault = "create_collection"],
                                     "create_collection failed"))
    /\ UNCHANGED << collections, points, embedder_instance, ctor_runs, uuids,
                    requests >>

\* embedder.py get_embedder, line 61: the test of _embedder_instance
get_embedder_check(f) ==
    IF embedder_instance = 0
    THEN [f EXCEPT !.pc = "ge_new"]
    ELSE get_embedder_returns(f, embedder_instance)

GeCheck(t) ==
    /\ th[t].pc = "ge_check"
    /\ Goes(t, get_embedder_check(th[t]))
    /\ UNCHANGED << collections, points, create_requests, embedder_instance,
                    ctor_runs, uuids, requests, faults >>

\* embedder.py get_embedder, line 62: construct the Embedder and assign it
GeNew(t) ==
    /\ th[t].pc = "ge_new"
    /\ ctor_runs' = ctor_runs + 1
    /\ embedder_instance' = ctor_runs + 1
    /\ Goes(t, get_embedder_returns(th[t], ctor_runs + 1))
    /\ UNCHANGED << collections, points, create_requests, uuids, requests,
                    faults >>

\* SentenceTransformer(model_name) raises: nothing is assigned
GeNewFails(t) ==
    /\ th[t].pc = "ge_new"
    /\ CanFail
    /\ faults' = faults + 1
    /\ ctor_runs' = ctor_runs + 1
    /\ Goes(t, get_embedder_raises([th[t] EXCEPT !.fault = "model"],
                                  "model load failed"))
    /\ UNCHANGED << collections, points, create_requests, embedder_instance,
                    uuids, requests >>

\* retriever.py add_document, lines 73-80: embed the batch at batch_start
AdEmbed(t) ==
    /\ th[t].pc = "ad_embed"
    /\ Goes(t, [th[t] EXCEPT !.embeds = @ + 1, !.pc = "ad_upsert"])
    /\ UNCHANGED << collections, points, create_requests, embedder_instance,
                    ctor_runs, uuids, requests, faults >>

AdEmbedFails(t) ==
    /\ th[t].pc = "ad_embed"
    /\ CanFail
    /\ faults' = faults + 1
    /\ Goes(t, add_document_raises(
                   [th[t] EXCEPT !.embeds = @ + 1, !.fault = "embed"],
                   "embed_text failed"))
    /\ UNCHANGED << collections, points, create_requests, embedder_instance,
                    ctor_runs, uuids, requests >>

\* retriever.py add_document, lines 87-91: the payload of the i-th chunk
\* (from 0) of the batch at batch_start; the metadata's entries come last
\* in the dict display, so they are the ones kept for a repeated key
payload_of(chunk, batch_start, i, metadata) ==
    metadata @@ [text |-> chunk, chunk_index |-> batch_start + i]

\* retriever.py add_document, lines 83-99: the points of the batch; `by`
\* is not stored: it names the call of add_document that built the point
batch_points(f, first_uuid) ==
    LET batch_end == Min(f.batch_start + f.batch_size, Len(f.chunks))
    IN  [k \in 1..(batch_end - f.batch_start) |->
            [id |-> first_uuid + k,
             payload |-> payload_of(f.chunks[f.batch_start + k], f.batch_start,
                                    k - 1, f.metadata),
             by |-> << f.call_id, f.ad_calls >>]]

\* retriever.py add_document, lines 73 and 108-112: after the upsert, the
\* next batch, or the return of len(chunks)
after_upsert(f) ==
    LET batch_end == Min(f.batch_start + f.batch_size, Len(f.chunks))
        g == [f EXCEPT !.upserts = @ + 1,
                       !.total_uploaded = @ + (batch_end - f.batch_start),
                       !.batch_start = @ + f.batch_size]
    IN  IF g.batch_start < Len(f.chunks)
        THEN [g EXCEPT !.pc = "ad_embed"]
        ELSE add_document_returns(g, Len(f.chunks))

\* AdUpsert with the points that carry the source of the new ones taken out
\* of the collection first
AdUpsertReplacesSameSource(t) ==
    /\ th[t].pc = "ad_upsert"
    /\ LET new == batch_points(th[t], uuids)
           same(p) == /\ "source" \in DOMAIN p.payload
                      /\ "source" \in DOMAIN new[1].payload
                      /\ p.payload.source = new[1].payload.source
       IN
       /\ uuids' = uuids + Len(new)
       /\ IF COLLECTION_NAME \in collections
          THEN /\ points' = SelectSeq(points, LAMBDA p : ~same(p)) \o new
               /\ Goes(t, after_upsert(th[t]))
          ELSE /\ UNCHANGED points
               /\ Goes(t, add_document_raises(
                              [th[t] EXCEPT !.upserts = @ + 1, !.fault = "upsert"],
                              "collection not found"))
    /\ UNCHANGED << collections, create_requests, embedder_instance,
                    ctor_runs, requests, faults >>

\* retriever.py add_document, lines 102-106: upsert the batch and wait;
\* Qdrant refuses points for a collection that does not exist
AdUpsert(t) ==
    /\ th[t].pc = "ad_upsert"
    /\ LET new == batch_points(th[t], uuids) IN
       /\ uuids' = uuids + Len(new)
       /\ IF COLLECTION_NAME \in collections
          THEN /\ points' = points \o new
               /\ Goes(t, after_upsert(th[t]))
          ELSE /\ UNCHANGED points
               /\ Goes(t, add_document_raises(
                              [th[t] EXCEPT !.upserts = @ + 1, !.fault = "upsert"],
                              "collection not found"))
    /\ UNCHANGED << collections, create_requests, embedder_instance,
                    ctor_runs, requests, faults >>

\* AdUpsertFails with the batch written before the error is raised
AdUpsertFailsAfterWrite(t) ==
    /\ th[t].pc = "ad_upsert"
    /\ CanFail
    /\ faults' = faults + 1
    /\ uuids' = uuids + Len(batch_points(th[t], uuids))
    /\ points' = points \o batch_points(th[t], uuids)
    /\ Goes(t, add_document_raises(
                   [th[t] EXCEPT !.upserts = @ + 1, !.fault = "upsert"],
                   "upsert failed"))
    /\ UNCHANGED << collections, create_requests, embedder_instance,
                    ctor_runs, requests >>

AdUpsertFails(t) ==
    /\ th[t].pc = "ad_upsert"
    /\ CanFail
    /\ faults' = faults + 1
    /\ uuids' = uuids + Len(batch_points(th[t], uuids))
    /\ Goes(t, add_document_raises(
                   [th[t] EXCEPT !.upserts = @ + 1, !.fault = "upsert"],
                   "upsert failed"))
    /\ UNCHANGED << collections, points, create_requests, embedder_instance,
                    ctor_runs, requests >>

\* updater.py update_from_urls, lines 104-144: what the loop does with the
\* record fetch_page_text returned for urls[i]
after_fetch(f, page_data) ==
    IF page_data.text # <<>> /\ Len(page_data.text) > MIN_PAGE_CHARS
    THEN enter_add_document(f, page_data.text,
                            [source |-> f.urls[f.i], title |-> page_data.title,
                             type |-> "web_page"],
                            DEFAULT_BATCH_SIZE)
    ELSE next_url([f EXCEPT
             !.results = [f.results EXCEPT
                 !.failed = @ + 1,
                 !.details = Append(@, [url |-> f.urls[f.i], status |-> "skipped",
                                        reason |-> "insufficient_content"])]])

\* updater.py fetch_page_text: the page is fetched and parsed
UfFetch(t) ==
    /\ th[t].pc = "uf_fetch"
    /\ Goes(t, after_fetch(th[t], page_record(th[t].urls[th[t].i])))
    /\ UNCHANGED << collections, points, create_requests, embedder_instance,
                    ctor_runs, uuids, requests, faults >>

\* updater.py fetch_page_text, lines 63-78: requests.get or raise_for_status
\* raises a RequestException, or the parse raises
UfFetchFails(t) ==
    /\ th[t].pc = "uf_fetch"
    /\ CanFail
    /\ faults' = faults + 1
    /\ \E e \in {"RequestException", "parse error"} :
           Goes(t, after_fetch([th[t] EXCEPT !.fault = "fetch",
                                            !.fetch_failed = @ \cup {th[t].i}],
                               error_record(th[t].urls[th[t].i], e)))
    /\ UNCHANGED << collections, points, create_requests, embedder_instance,
                    ctor_runs, uuids, requests >>

\* retriever.py search_documents, line 135: embed the query
SdEmbed(t) ==
    /\ th[t].pc = "sd_embed"
    /\ Goes(t, [th[t] EXCEPT !.pc = "sd_search"])
    /\ UNCHANGED << collections, points, create_requests, embedder_instance,
                    ctor_runs, uuids, requests, faults >>

SdEmbedFails(t) ==
    /\ th[t].pc = "sd_embed"
    /\ CanFail
    /\ faults' = faults + 1
    /\ Goes(t, search_documents_returns([th[t] EXCEPT !.fault = "embed_query"],
                                        <<>>))
    /\ UNCHANGED << collections, points, create_requests, embedder_instance,
                    ctor_runs, uuids, requests >>

\* retriever.py search_documents, lines 145-152: one formatted result
search_result(point) ==
    [text |-> point.payload.text,
     source |-> IF "source" \in DOMAIN point.payload
                THEN point.payload.source ELSE "unknown",
     metadata |-> point.payload]

\* qdrant_client.search: up to limit points; which points score highest is
\* the embedding model's matter, and the first ones written stand for them
qdrant_search(limit) ==
    [k \in 1..Min(limit, Len(points)) |-> points[k]]

\* retriever.py search_documents, lines 138-154
SdSearch(t) ==
    /\ th[t].pc = "sd_search"
    /\ LET hits == qdrant_search(th[t].top_k) IN
       IF COLLECTION_NAME \in collections
       THEN Goes(t, search_documents_returns(th[t],
                    [k \in 1..Len(hits) |-> search_result(hits[k])]))
       ELSE \* the search raises: search_documents returns []
            Goes(t, search_documents_returns([th[t] EXCEPT !.fault = "search"],
                                             <<>>))
    /\ UNCHANGED << collections, points, create_requests, embedder_instance,
                    ctor_runs, uuids, requests, faults >>

SdSearchFails(t) ==
    /\ th[t].pc = "sd_search"
    /\ CanFail
    /\ faults' = faults + 1
    /\ Goes(t, search_documents_returns([th[t] EXCEPT !.fault = "search"], <<>>))
    /\ UNCHANGED << collections, points, create_requests, embedder_instance,
                    ctor_runs, uuids, requests >>

\* generator.py generate_answer, lines 69-95: the completion and the answer
GaLlm(t) ==
    /\ th[t].pc = "ga_llm"
    /\ Goes(t, generate_answer_returns([th[t] EXCEPT !.llm_calls = @ + 1],
               [answer |-> "completion", sources |-> th[t].sources,
                context_used |-> TRUE, model |-> "llama-3.3-70b-versatile"]))
    /\ UNCHANGED << collections, points, create_requests, embedder_instance,
                    ctor_runs, uuids, requests, faults >>

\* GaLlmFails with the completion outside generate_answer's try: the
\* error reaches main.py ask, which raises HTTPException(500)
GaLlmFailsUncaught(t) ==
    /\ th[t].pc = "ga_llm"
    /\ CanFail
    /\ faults' = faults + 1
    /\ Goes(t, [th[t] EXCEPT !.llm_calls = @ + 1, !.fault = "llm",
                             !.pc = "done", !.exc = "Groq API error",
                             !.http = [code |-> 500,
                                       body |-> [detail |-> "Groq API error"]]])
    /\ UNCHANGED << collections, points, create_requests, embedder_instance,
                    ctor_runs, uuids, requests >>

\* generator.py generate_answer, lines 97-104: the except clause
GaLlmFails(t) ==
    /\ th[t].pc = "ga_llm"
    /\ CanFail
    /\ faults' = faults + 1
    /\ Goes(t, generate_answer_returns(
                   [th[t] EXCEPT !.llm_calls = @ + 1, !.fault = "llm"],
               [answer |-> "Error generating answer: Groq API error",
                sources |-> <<>>, context_used |-> FALSE,
                error |-> "Groq API error"]))
    /\ UNCHANGED << collections, points, create_requests, embedder_instance,
                    ctor_runs, uuids, requests >>

(***************************************************************************)
(* The requests.  A request goes to the first free thread.                 *)
(***************************************************************************)
Free(t) == Idle(t) /\ \A u \in Threads : Idle(u) => (t = u \/ t = "w1")

Accepts(t) ==
    /\ app = "serving"
    /\ Free(t)
    /\ Cardinality({u \in Threads : ~Idle(u)}) < pool_size
    /\ requests < MaxRequests
    /\ requests' = requests + 1

NewFrame(op) == [IdleFrame EXCEPT !.op = op, !.call_id = requests + 1]

\* POST /ask
Ask(t, top_k) ==
    /\ Accepts(t)
    /\ Goes(t, [NewFrame("ask") EXCEPT !.top_k = top_k, !.pc = "ge_check"])
    /\ UNCHANGED << collections, points, create_requests, embedder_instance,
                    ctor_runs, uuids, faults >>

\* POST /add_document
AddDoc(t, text, source) ==
    /\ Accepts(t)
    /\ Goes(t, enter_add_document(NewFrame("add_doc"), text,
                                  [source |-> source], DEFAULT_BATCH_SIZE))
    /\ UNCHANGED << collections, points, create_requests, embedder_instance,
                    ctor_runs, uuids, faults >>

\* POST /update_from_urls: the response, then the background task
UpdateUrls(t, urls) ==
    /\ Accepts(t)
    /\ Goes(t, [NewFrame("update_urls") EXCEPT
                   !.urls = urls, !.pc = "ic_list",
                   !.http = [code |-> 200,
                             body |-> [status |-> "started", urls |-> urls]]])
    /\ UNCHANGED << collections, points, create_requests, embedder_instance,
                    ctor_runs, uuids, faults >>

\* POST /update_from_url: update_single_url(url) is update_from_urls([url])
UpdateUrl(t, url) ==
    /\ Accepts(t)
    /\ Goes(t, [NewFrame("update_url") EXCEPT !.urls = << url >>,
                                              !.pc = "ic_list"])
    /\ UNCHANGED << collections, points, create_requests, embedder_instance,
                    ctor_runs, uuids, faults >>

\* UpdatePredefined with a source that is not a preset served from the
\* first preset instead of refused
UpdatePredefinedWithDefault(t, source) ==
    LET urls == IF source \in DOMAIN PREDEFINED_SOURCES
                THEN PREDEFINED_SOURCES[source]
                ELSE PREDEFINED_SOURCES.fastapi
    IN  /\ Accepts(t)
        /\ Goes(t, [NewFrame("update_predefined") EXCEPT
                       !.source = source,
                       !.urls = urls, !.pc = "ic_list",
                       !.http = [code |-> 200,
                                 body |-> [status |-> "started",
                                           source |-> source, urls |-> urls]]])
        /\ UNCHANGED << collections, points, create_requests,
                        embedder_instance, ctor_runs, uuids, faults >>

\* POST /update_predefined/{source}
UpdatePredefined(t, source) ==
    /\ Accepts(t)
    /\ IF source \notin DOMAIN PREDEFINED_SOURCES
       THEN Goes(t, [NewFrame("update_predefined") EXCEPT
                        !.source = source,
                        !.pc = "done",
                        !.http = [code |-> 404,
                                  body |-> [detail |-> [source |-> source,
                                                        available |-> PredefinedKeys]]]])
       ELSE Goes(t, [NewFrame("update_predefined") EXCEPT
                        !.source = source,
                        !.urls = PREDEFINED_SOURCES[source], !.pc = "ic_list",
                        !.http = [code |-> 200,
                                  body |-> [status |-> "started", source |-> source,
                                            urls |-> PREDEFINED_SOURCES[source]]]])
    /\ UNCHANGED << collections, points, create_requests, embedder_instance,
                    ctor_runs, uuids, faults >>

\* POST /upload_pdf: the upload is saved to a temporary file
UploadPdf(t, name) ==
    /\ Accepts(t)
    /\ Goes(t, [NewFrame("upload_pdf") EXCEPT !.file_path = << "tmp", name >>,
                                              !.pc = "ic_list"])
    /\ UNCHANGED << collections, points, create_requests, embedder_instance,
                    ctor_runs, uuids, faults >>

\* retriever.py get_collection_info; vectors_count is the count of points
get_collection_info(ok) ==
    IF ok /\ COLLECTION_NAME \in collections
    THEN [name |-> COLLECTION_NAME, vectors_count |-> Len(points),
          points_count |-> Len(points), status |-> "healthy"]
    ELSE [name |-> COLLECTION_NAME, status |-> "error",
          error |-> IF ok THEN "collection not found" ELSE "get_collection failed"]

\* CollectionInfo with get_collection_info lacking its except clause: the
\* client's error leaves the handler
CollectionInfoUncaught(t) ==
    /\ Accepts(t)
    /\ \E ok \in BOOLEAN :
        /\ ok \/ CanFail
        /\ faults' = IF ok THEN faults ELSE faults + 1
        /\ LET info == get_collection_info(ok) IN
           Goes(t, IF ok /\ COLLECTION_NAME \in collections
                   THEN [NewFrame("collection_info") EXCEPT
                            !.pc = "done", !.ret = info,
                            !.http = [code |-> 200, body |-> info]]
                   ELSE [NewFrame("collection_info") EXCEPT
                            !.pc = "done", !.exc = info.error,
                            !.fault = IF ok THEN "" ELSE "get_collection",
                            !.http = [code |-> 500,
                                      body |-> [detail |-> info.error]]])
    /\ UNCHANGED << collections, points, create_requests, embedder_instance,
                    ctor_runs, uuids >>

\* GET /collection_info
CollectionInfo(t) ==
    /\ Accepts(t)
    /\ \E ok \in BOOLEAN :
        /\ ok \/ CanFail
        /\ faults' = IF ok THEN faults ELSE faults + 1
        /\ LET info == get_collection_info(ok) IN
           Goes(t, [NewFrame("collection_info") EXCEPT
                       !.pc = "done", !.ret = info,
                       !.fault = IF ok THEN "" ELSE "get_collection",
                       !.http = [code |-> 200, body |-> info]])
    /\ UNCHANGED << collections, points, create_requests, embedder_instance,
                    ctor_runs, uuids >>

\* main.py scheduled_update_job, lines 79-85: every predefined url
all_urls ==
    PREDEFINED_SOURCES.fastapi \o PREDEFINED_SOURCES.langchain
        \o PREDEFINED_SOURCES.pydantic

\* the scheduler fires the daily job
ScheduledJob(t) ==
    /\ Accepts(t)
    /\ Goes(t, [NewFrame("scheduled_job") EXCEPT !.urls = all_urls,
                                                 !.pc = "ic_list"])
    /\ UNCHANGED << collections, points, create_requests, embedder_instance,
                    ctor_runs, uuids, faults >>

\* the sources POST /update_predefined is sent
SourceNames == {"fastapi", "langchain", "pydantic", "unknown-source"}

(***************************************************************************)
(* The service: the process after its modules are loaded.  The Qdrant      *)
(* server may or may not hold the collection from an earlier run.          *)
(***************************************************************************)
Init ==
    /\ app = "starting"
    /\ collections \in {{}, {COLLECTION_NAME}}
    /\ points = <<>>
    /\ create_requests = 0
    /\ embedder_instance = 0
    /\ ctor_runs = 0
    /\ uuids = 0
    /\ last_update_time = 0
    /\ pool_size = 1
    /\ th = [t \in Threads |->
                IF t = "w1" THEN [IdleFrame EXCEPT !.op = "startup", !.pc = "ic_list"]
                ELSE IdleFrame]
    /\ requests = 0
    /\ faults = 0

Steps(t) ==
    \/ IcList(t) \/ IcListFails(t) \/ IcCreate(t) \/ IcCreateFails(t)
    \/ GeCheck(t) \/ GeNew(t) \/ GeNewFails(t)
    \/ AdEmbed(t) \/ AdEmbedFails(t) \/ AdUpsert(t) \/ AdUpsertFails(t)
    \/ UfFetch(t) \/ UfFetchFails(t)
    \/ SdEmbed(t) \/ SdEmbedFails(t) \/ SdSearch(t) \/ SdSearchFails(t)
    \/ GaLlm(t) \/ GaLlmFails(t)

Next ==
    \E t \in Threads :
        \/ Steps(t)
        \/ \E top_k \in TopKs : Ask(t, top_k)
        \/ \E text \in RequestTexts : AddDoc(t, text, "manual_upload")
        \/ \E urls \in UrlLists : UpdateUrls(t, urls)
        \/ \E url \in {ShortUrl, PREDEFINED_SOURCES.fastapi[1]} : UpdateUrl(t, url)
        \/ \E source \in SourceNames : UpdatePredefined(t, source)
        \/ \E name \in DOMAIN PdfFiles : UploadPdf(t, name)
        \/ CollectionInfo(t)

Spec == Init /\ [][Next]_vars

(***************************************************************************)
(* The pipeline called directly, as a library, without the HTTP layer and  *)
(* without the startup that creates the collection.                        *)
(***************************************************************************)
Calls(t) ==
    /\ app = "library"
    /\ Free(t)
    /\ Cardinality({u \in Threads : ~Idle(u)}) < pool_size
    /\ requests < MaxRequests
    /\ requests' = requests + 1

\* add_document(text, metadata, batch_size)
CallAddDocument(t, text, metadata, batch_size) ==
    /\ Calls(t)
    /\ Goes(t, enter_add_document(NewFrame("call_add_document"), text,
                                  metadata, batch_size))
    /\ UNCHANGED << collections, points, create_requests, embedder_instance,
                    ctor_runs, uuids, faults >>

\* search_documents(query, top_k)
CallSearchDocuments(t, top_k) ==
    /\ Calls(t)
    /\ Goes(t, [NewFrame("call_search_documents") EXCEPT !.top_k = top_k,
                                                         !.pc = "ge_check"])
    /\ UNCHANGED << collections, points, create_requests, embedder_instance,
                    ctor_runs, uuids, faults >>

\* init_collection()
CallInitCollection(t) ==
    /\ Calls(t)
    /\ Goes(t, [NewFrame("call_init_collection") EXCEPT !.pc = "ic_list"])
    /\ UNCHANGED << collections, points, create_requests, embedder_instance,
                    ctor_runs, uuids, faults >>

InitLib ==
    /\ app = "library"
    /\ collections \in {{}, {COLLECTION_NAME}}
    /\ points = <<>>
    /\ create_requests = 0
    /\ embedder_instance = 0
    /\ ctor_runs = 0
    /\ uuids = 0
    /\ last_update_time = 0
    /\ pool_size = 1
    /\ th = [t \in Threads |-> IdleFrame]
    /\ requests = 0
    /\ faults = 0

NextLib ==
    \E t \in Threads :
        \/ IcList(t) \/ IcListFails(t) \/ IcCreate(t) \/ IcCreateFails(t)
        \/ GeCheck(t) \/ GeNew(t) \/ GeNewFails(t)
        \/ AdEmbed(t) \/ AdEmbedFails(t) \/ AdUpsert(t) \/ AdUpsertFails(t)
        \/ SdEmbed(t) \/ SdEmbedFails(t) \/ SdSearch(t) \/ SdSearchFails(t)
        \/ \E args \in AddDocumentArgs :
               CallAddDocument(t, LibTexts[args[1]], args[2], args[3])
        \/ \E top_k \in TopKs : CallSearchDocuments(t, top_k)
        \/ CallInitCollection(t)

SpecLib == InitLib /\ [][NextLib]_vars

(***************************************************************************)
(* The service with two calls running at a time: request handlers and      *)
(* background tasks run on the server's thread pool.                       *)
(***************************************************************************)
InitPool ==
    /\ app = "starting"
    /\ collections \in {{}, {COLLECTION_NAME}}
    /\ points = <<>>
    /\ create_requests = 0
    /\ embedder_instance = 0
    /\ ctor_runs = 0
    /\ uuids = 0
    /\ last_update_time = 0
    /\ pool_size = 2
    /\ th = [t \in Threads |->
                IF t = "w1" THEN [IdleFrame EXCEPT !.op = "startup", !.pc = "ic_list"]
                ELSE IdleFrame]
    /\ requests = 0
    /\ faults = 0

NextPool ==
    \E t \in Threads :
        \/ Steps(t)
        \/ Ask(t, DEFAULT_TOP_K)
        \/ AddDoc(t, << "h", "i", " " >>, "manual_upload")
        \/ UpdateUrl(t, PREDEFINED_SOURCES.fastapi[1])
        \/ UploadPdf(t, "ok")

SpecPool == InitPool /\ [][NextPool]_vars

(***************************************************************************)
(* The ingestion runs of the service, two at a time: manual documents,     *)
(* background URL batches, PDF loads and the scheduler's daily job, which  *)
(* runs on the scheduler's own thread whatever the requests are doing.     *)
(* No service fails here: what a failed run leaves behind is the matter of *)
(* the library's specification.                                            *)
(***************************************************************************)
\* main.py line 66: BackgroundScheduler() with its defaults runs at most one
\* instance of a job at a time (max_instances is 1)
JobMayFire == \A u \in Threads : th[u].op = "scheduled_job" => th[u].pc = "done"

\* the scheduler fires the daily job when no instance of it is running
FireScheduledJob(t) == JobMayFire /\ ScheduledJob(t)

NextIngest ==
    \E t \in Threads :
        \/ IcList(t) \/ IcCreate(t)
        \/ GeCheck(t) \/ GeNew(t)
        \/ AdEmbed(t) \/ AdUpsert(t)
        \/ UfFetch(t)
        \/ AddDoc(t, << "h", "i", " " >>, "manual_upload")
        \/ \E urls \in UrlLists : UpdateUrls(t, urls)
        \/ UploadPdf(t, "ok")
        \/ FireScheduledJob(t)

SpecIngest == InitPool /\ [][NextIngest]_vars

(***************************************************************************)
(* chunker.py chunk_text called on its own, one iteration of its loop at a *)
(* time.                                                                   *)
(***************************************************************************)
\* the characters of the texts: two letters and a whitespace character
Alphabet == {"a", "b", " "}

\* the texts chunk_text is given: None, and every text up to MaxTextLen
ChunkTexts ==
    {NoneText} \cup UNION {[1..n -> Alphabet] : n \in 0..MaxTextLen}

ChunkSizes == 0..MaxChunkSize

Overlaps == 0..MaxOverlap

\* chunker.py lines 23-24: the chunk that starts at start
chunk_at(text, chunk_size, start) ==
    strip(Slice(text, start, Min(start + chunk_size, Len(text))))

\* ct_iterate with only the chunks of full length kept
ct_iterate_full_chunks_only(f) ==
    LET chunk == chunk_at(f.text, f.chunk_size, f.start)
        g == [f EXCEPT
                 !.chunks = IF Len(chunk) = f.chunk_size /\ chunk # <<>>
                            THEN Append(@, chunk) ELSE @,
                 !.start = @ + (f.chunk_size - f.overlap),
                 !.iters = @ + 1]
    IN  IF f.chunk_size <= f.overlap
        THEN [g EXCEPT !.pc = "done", !.ret = [chunks |-> g.chunks]]
        ELSE g

\* ct_iterate with start moved on by chunk_size, the overlap forgotten
ct_iterate_no_overlap(f) ==
    LET chunk == chunk_at(f.text, f.chunk_size, f.start)
        g == [f EXCEPT
                 !.chunks = IF chunk # <<>> THEN Append(@, chunk) ELSE @,
                 !.start = @ + f.chunk_size,
                 !.iters = @ + 1]
    IN  IF f.chunk_size <= f.overlap
        THEN [g EXCEPT !.pc = "done", !.ret = [chunks |-> g.chunks]]
        ELSE g

\* ct_iterate without the break
ct_iterate_no_break(f) ==
    LET chunk == chunk_at(f.text, f.chunk_size, f.start)
    IN  [f EXCEPT
            !.chunks = IF chunk # <<>> THEN Append(@, chunk) ELSE @,
            !.start = @ + (f.chunk_size - f.overlap),
            !.iters = @ + 1]

\* ct_iterate with the break taken only when chunk_size < overlap
ct_iterate_strict_break(f) ==
    LET chunk == chunk_at(f.text, f.chunk_size, f.start)
        g == [f EXCEPT
                 !.chunks = IF chunk # <<>> THEN Append(@, chunk) ELSE @,
                 !.start = @ + (f.chunk_size - f.overlap),
                 !.iters = @ + 1]
    IN  IF f.chunk_size < f.overlap
        THEN [g EXCEPT !.pc = "done", !.ret = [chunks |-> g.chunks]]
        ELSE g

\* chunker.py lines 23-34: one iteration of the loop
ct_iterate(f) ==
    LET chunk == chunk_at(f.text, f.chunk_size, f.start)
        g == [f EXCEPT
                 !.chunks = IF chunk # <<>> THEN Append(@, chunk) ELSE @,
                 !.start = @ + (f.chunk_size - f.overlap),
                 !.iters = @ + 1]
    IN  IF f.chunk_size <= f.overlap
        THEN [g EXCEPT !.pc = "done", !.ret = [chunks |-> g.chunks]]
        ELSE g

\* chunker.py lines 16-20: no text gives no chunks
CtCheck(t) ==
    /\ th[t].pc = "ct_check"
    /\ Goes(t, IF th[t].text = NoneText \/ Len(th[t].text) = 0
               THEN [th[t] EXCEPT !.pc = "done", !.ret = [chunks |-> <<>>]]
               ELSE [th[t] EXCEPT !.pc = "ct_loop", !.chunks = <<>>,
                                  !.start = 0])
    /\ UNCHANGED << collections, points, create_requests, embedder_instance,
                    ctor_runs, uuids, requests, faults >>

\* chunker.py line 22, the test holds: the body of the loop
CtIterate(t) ==
    /\ th[t].pc = "ct_loop"
    /\ th[t].start < Len(th[t].text)
    /\ Goes(t, ct_iterate(th[t]))
    /\ UNCHANGED << collections, points, create_requests, embedder_instance,
                    ctor_runs, uuids, requests, faults >>

\* chunker.py lines 22 and 36, the test fails: return chunks
CtReturn(t) ==
    /\ th[t].pc = "ct_loop"
    /\ ~(th[t].start < Len(th[t].text))
    /\ Goes(t, [th[t] EXCEPT !.pc = "done", !.ret = [chunks |-> th[t].chunks]])
    /\ UNCHANGED << collections, points, create_requests, embedder_instance,
                    ctor_runs, uuids, requests, faults >>

InitChunk ==
    /\ app = "library"
    /\ collections = {}
    /\ points = <<>>
    /\ create_requests = 0
    /\ embedder_instance = 0
    /\ ctor_runs = 0
    /\ uuids = 0
    /\ last_update_time = 0
    /\ pool_size = 1
    /\ requests = 0
    /\ faults = 0
    /\ \E text \in ChunkTexts, chunk_size \in ChunkSizes, overlap \in Overlaps :
           th = [t \in Threads |->
                    IF t = "w1"
                    THEN [IdleFrame EXCEPT !.op = "call_chunk_text",
                                           !.pc = "ct_check",
                                           !.text = text,
                                           !.chunk_size = chunk_size,
                                           !.overlap = overlap]
                    ELSE IdleFrame]

NextChunk == \E t \in Threads : CtCheck(t) \/ CtIterate(t) \/ CtReturn(t)

SpecChunk == InitChunk /\ [][NextChunk]_vars

\* a call that can take a step takes it: the thread is not suspended for ever
SpecChunkFair == SpecChunk /\ WF_vars(NextChunk)

(***************************************************************************)
(* The claims.                                                             *)
(***************************************************************************)
\* the points in the store that call `by` of add_document built
PointsBy(by) == SelectSeq(points, LAMBDA p : p.by = by)

\* the call of add_document thread t runs, or ran last
CallOf(t) == << th[t].call_id, th[t].ad_calls >>

\* a text without any character that is not whitespace, or no text at all
Blank(text) == text = NoneText \/ \A k \in 1..Len(text) : text[k] \in Whitespace

\* C1: when embedding or upserting batch N raises in add_document, the
\* store holds exactly the points of batches 1..N-1 of that call, each with
\* its chunk's payload, none of batch N or later, and the caller gets the
\* error and no chunk count.
C1_FailedBatchKeepsEarlierBatches ==
    \A t \in Threads :
        LET f == th[t]
            mine == PointsBy(CallOf(t))
            before == Min((f.embeds - 1) * f.batch_size, Len(f.chunks))
        IN  (f.op = "call_add_document" /\ f.pc = "done"
                /\ f.fault \in {"embed", "upsert"})
            => /\ Len(mine) = before
               /\ \A k \in 1..Len(mine) :
                      mine[k].payload =
                          f.metadata @@ [text |-> f.chunks[k], chunk_index |-> k - 1]
               /\ f.exc # ""
               /\ f.ad_ret = -1

\* C1's case: the second or a later batch failed after an earlier batch of
\* the same call had been stored
C1_Witness ==
    \E t \in Threads :
        /\ th[t].op = "call_add_document" /\ th[t].pc = "done"
        /\ th[t].fault \in {"embed", "upsert"}
        /\ th[t].embeds >= 2
        /\ Len(PointsBy(CallOf(t))) >= 1
        /\ Len(PointsBy(CallOf(t))) < Len(th[t].chunks)

\* C2: add_document of an empty, missing or whitespace-only text returns 0
\* at once: no embedder is fetched, nothing is embedded, nothing is upserted.
C2_BlankTextReturnsZero ==
    \A t \in Threads :
        LET f == th[t] IN
        (f.op = "call_add_document" /\ Blank(f.text))
        => /\ f.pc = "done"
           /\ f.ad_ret = 0
           /\ f.exc = ""
           /\ f.embedder = 0 /\ f.embeds = 0 /\ f.upserts = 0
           /\ PointsBy(CallOf(t)) = <<>>

\* C2's case: a whitespace-only text was passed while the store held points
C2_Witness ==
    \E t \in Threads :
        /\ th[t].op = "call_add_document" /\ th[t].pc = "done"
        /\ th[t].text # NoneText /\ Len(th[t].text) > 0 /\ Blank(th[t].text)
        /\ th[t].ad_ret = 0
        /\ Len(points) > 0

\* C3: add_document that returns for a text of n >= 1 chunks returns n,
\* has stored n points, and the k-th of them carries chunk_index k (from 0),
\* whatever the batch size.
C3_ChunkIndexFollowsDocumentOrder ==
    \A t \in Threads :
        LET f == th[t]
            mine == PointsBy(CallOf(t))
        IN  (f.op = "call_add_document" /\ f.pc = "done" /\ f.exc = ""
                /\ Len(f.chunks) >= 1)
            => /\ f.ad_ret = Len(f.chunks)
               /\ Len(mine) = Len(f.chunks)
               /\ \A k \in 1..Len(mine) : mine[k].payload.chunk_index = k - 1

\* the errors add_document raises: the model load, embed_text, the upsert
IngestionFaults == {"model", "embed", "upsert"}

SearchReturned(t) ==
    th[t].op = "call_search_documents" /\ th[t].pc = "done"

\* C5: search_documents raises nothing; after an error of the embedder or
\* the store, and on a missing or empty collection, it returns the empty
\* sequence; and no step of it changes the store.
C5_SearchNeverRaisesNorWrites ==
    /\ [](\A t \in Threads :
            SearchReturned(t)
            => /\ th[t].exc = ""
               /\ "results" \in DOMAIN th[t].ret
               /\ th[t].fault # "" => th[t].ret.results = <<>>
               /\ COLLECTION_NAME \notin collections => th[t].ret.results = <<>>
               /\ Len(th[t].ret.results) <= th[t].top_k)
    /\ [][\A t \in Threads :
            (th'[t] # th[t] /\ th'[t].op = "call_search_documents")
            => /\ points' = points
               /\ collections' = collections
               /\ uuids' = uuids]_vars

\* C5's case: the store held points and the search raised
C5_Witness ==
    \E t \in Threads :
        /\ SearchReturned(t)
        /\ th[t].fault = "search"
        /\ COLLECTION_NAME \in collections
        /\ Len(points) > 0
        /\ th[t].ret.results = <<>>

\* C6: generate_answer raises nothing and POST /ask answers 200; when the
\* completion raises after a retrieval that found chunks, the answer is
\* tagged with the error and carries no sources.
C6_AskAlwaysAnswers ==
    \A t \in Threads :
        LET f == th[t] IN
        (f.op = "ask" /\ f.pc = "done")
        => /\ f.exc = ""
           /\ f.http.code = 200
           /\ f.http.body = f.ret
           /\ f.fault = "llm" =>
                  /\ "error" \in DOMAIN f.ret
                  /\ f.ret.sources = <<>>
                  /\ f.ret.context_used = FALSE

\* C6's case: chunks were retrieved and the completion raised
C6_Witness ==
    \E t \in Threads :
        /\ th[t].op = "ask" /\ th[t].pc = "done"
        /\ th[t].fault = "llm"
        /\ th[t].hits >= 1
        /\ th[t].llm_calls = 1

\* C7: when search_documents returns nothing, generate_answer returns the
\* fixed answer with context_used false and no sources, and the LLM is not
\* called.
C7_NoResultsNoLlm ==
    \A t \in Threads :
        LET f == th[t] IN
        (f.op = "ask" /\ f.hits = 0)
        => /\ f.pc = "done"
           /\ f.llm_calls = 0
           /\ f.ret.answer =
                  "I don't have enough information to answer that question. Please update the knowledge base."
           /\ f.ret.context_used = FALSE
           /\ f.ret.sources = <<>>
           /\ DOMAIN f.ret = {"answer", "sources", "context_used"}

\* C7's case: the store held points and the search failed, so that the
\* retrieval came back empty
C7_Witness ==
    \E t \in Threads :
        /\ th[t].op = "ask" /\ th[t].pc = "done"
        /\ th[t].hits = 0
        /\ th[t].fault \in {"search", "embed_query", "model"}
        /\ Len(points) > 0

\* C8: Embedder() is constructed at most once (constructions that raised
\* set aside) and every call of get_embedder returns the same instance.
C8_EmbedderConstructedOnce ==
    /\ \A t, u \in Threads :
           (th[t].embedder # 0 /\ th[u].embedder # 0)
           => th[t].embedder = th[u].embedder
    /\ faults = 0 => ctor_runs <= 1

\* C9: a call of init_collection that finds the collection issues no create
\* request and leaves the store as it is, a create request is issued only
\* from a call that found it absent, and over the life of the service at
\* most one create request is issued.
C9_InitCollectionIdempotent ==
    /\ [](create_requests <= 1)
    /\ [][\A t \in Threads :
            /\ (th[t].pc = "ic_list" /\ th'[t] # th[t]
                    /\ COLLECTION_NAME \in collections)
               => /\ th'[t].pc # "ic_create"
                  /\ create_requests' = create_requests
                  /\ collections' = collections
                  /\ points' = points
            /\ create_requests' # create_requests
               => /\ create_requests = 0
                  /\ COLLECTION_NAME \notin collections]_vars

\* C9's case: startup created the collection, and init_collection ran
\* again before a PDF load and before a URL batch
C9_Witness ==
    /\ create_requests = 1
    /\ \E t, u \in Threads :
           /\ th[t].op = "upload_pdf" /\ th[t].pc \notin {"ic_list", "ic_create"}
           /\ th[u].op = "update_url" /\ th[u].pc \notin {"ic_list", "ic_create"}

\* C10: once the loop of update_from_urls has begun, nothing raised for a
\* url leaves it: it has one record for each url handled so far, and when
\* the call returns details holds one record for each url, in input order.
C10_EveryUrlGetsItsRecord ==
    \A t \in Threads :
        LET f == th[t] IN
        (f.op \in UrlOps /\ f.i >= 1)
        => /\ f.exc = ""
           /\ f.pc # "done" =>
                  /\ Len(f.results.details) = f.i - 1
                  /\ \A k \in 1..(f.i - 1) : f.results.details[k].url = f.urls[k]
           /\ f.pc = "done" =>
                  /\ f.ret = f.results
                  /\ f.ret.total_urls = Len(f.urls)
                  /\ Len(f.ret.details) = Len(f.urls)
                  /\ \A k \in 1..Len(f.urls) : f.ret.details[k].url = f.urls[k]

\* C10's case: add_document raised for the first url and the second url
\* was still ingested
C10_Witness ==
    \E t \in Threads :
        /\ th[t].op \in UrlOps /\ th[t].pc = "done"
        /\ Len(th[t].urls) >= 2
        /\ th[t].exc = ""
        /\ Len(th[t].ret.details) = Len(th[t].urls)
        /\ th[t].ret.details[1].status = "failed"
        /\ th[t].ret.details[2].status = "success"

\* C11: in the details of update_from_urls a url whose fetch raised is
\* recorded as "failed" with the error, and "skipped" is recorded only for a
\* url that was fetched and whose text does not pass the threshold.
C11_FetchErrorIsFailureNotSkip ==
    \A t \in Threads :
        LET f == th[t] IN
        f.op \in UrlOps
        => \A k \in 1..Len(f.results.details) :
               LET d == f.results.details[k] IN
               /\ k \in f.fetch_failed
                  => d.status = "failed" /\ "error" \in DOMAIN d
               /\ d.status = "skipped"
                  => /\ k \notin f.fetch_failed
                     /\ Len(page_record(f.urls[k]).text) <= MIN_PAGE_CHARS

\* thread t runs, or has run, chunk_text on a text that is not None
ChunkCall(t) == th[t].op = "call_chunk_text" /\ th[t].text # NoneText

\* chunk_text has returned on thread t
ChunkReturned(t) == ChunkCall(t) /\ th[t].pc = "done"

\* the loop run one iteration at a time returns what the operator chunk_text
\* gives for the same arguments
ChunkLoopAgrees ==
    \A t \in Threads :
        (th[t].op = "call_chunk_text" /\ th[t].pc = "done")
        => th[t].ret.chunks
               = chunk_text(th[t].text, th[t].chunk_size, th[t].overlap)

\* C12 as claimed: for every non-empty text and chunk_size > overlap >= 0
\* chunk_text returns at least one chunk.
C12_NonEmptyTextGivesChunks ==
    \A t \in Threads :
        (ChunkReturned(t) /\ Len(th[t].text) > 0
            /\ th[t].chunk_size > th[t].overlap)
        => Len(th[t].ret.chunks) >= 1

\* C12 as amended: for every text that holds a character other than
\* whitespace and chunk_size > overlap >= 0 chunk_text returns at least one
\* chunk, and no chunk is empty; a text of whitespace only gives no chunk.
C12_NonBlankTextGivesChunks ==
    \A t \in Threads :
        (ChunkReturned(t) /\ th[t].chunk_size > th[t].overlap)
        => /\ ~Blank(th[t].text) => Len(th[t].ret.chunks) >= 1
           /\ Blank(th[t].text) => th[t].ret.chunks = <<>>
           /\ \A k \in 1..Len(th[t].ret.chunks) : th[t].ret.chunks[k] # <<>>

\* C12's case: a text that begins with whitespace, cut in several chunks
C12_Witness ==
    \E t \in Threads :
        /\ ChunkReturned(t)
        /\ th[t].chunk_size > th[t].overlap
        /\ th[t].overlap >= 1
        /\ Len(th[t].text) > th[t].chunk_size
        /\ th[t].text[1] \in Whitespace
        /\ Len(th[t].ret.chunks) >= 2

\* s without its whitespace characters
remove_whitespace(s) == SelectSeq(s, LAMBDA c : c \notin Whitespace)

\* the first chunk whole, then of each later chunk what follows its first
\* `overlap` characters, concatenated in order
reconstruct(chunks, overlap) ==
    IF chunks = <<>> THEN <<>>
    ELSE chunks[1]
         \o Join([k \in 1..(Len(chunks) - 1) |->
                     Slice(chunks[k + 1], overlap, Len(chunks[k + 1]))], <<>>)

\* some iteration after the first starts on a whitespace character of text
LaterStartOnWhitespace(text, chunk_size, overlap) ==
    \E k \in 1..Len(text) :
        /\ k * (chunk_size - overlap) < Len(text)
        /\ text[k * (chunk_size - overlap) + 1] \in Whitespace

\* C13 as claimed: for every non-empty text and chunk_size > overlap >= 0
\* the first chunk and the parts of the later chunks after their first
\* `overlap` characters, concatenated, give text again, whitespace set aside.
C13_UniquePartsReconstructText ==
    \A t \in Threads :
        (ChunkReturned(t) /\ Len(th[t].text) > 0
            /\ th[t].chunk_size > th[t].overlap)
        => remove_whitespace(reconstruct(th[t].ret.chunks, th[t].overlap))
               = remove_whitespace(th[t].text)

\* C13 as amended: the reconstruction gives text again, all whitespace
\* deleted from both, when no chunk after the first starts on a whitespace
\* character of text, so that the strip takes nothing from its front.
C13_ReconstructWhenNoStripAtFront ==
    \A t \in Threads :
        (ChunkReturned(t) /\ Len(th[t].text) > 0
            /\ th[t].chunk_size > th[t].overlap
            /\ ~LaterStartOnWhitespace(th[t].text, th[t].chunk_size,
                                       th[t].overlap))
        => remove_whitespace(reconstruct(th[t].ret.chunks, th[t].overlap))
               = remove_whitespace(th[t].text)

\* C13's case: overlapping chunks of a text that holds whitespace, none of
\* them starting on it
C13_Witness ==
    \E t \in Threads :
        /\ ChunkReturned(t)
        /\ th[t].chunk_size > th[t].overlap
        /\ th[t].overlap >= 1
        /\ Len(th[t].ret.chunks) >= 3
        /\ \E k \in 1..Len(th[t].text) : th[t].text[k] \in Whitespace
        /\ ~LaterStartOnWhitespace(th[t].text, th[t].chunk_size, th[t].overlap)
        /\ reconstruct(th[t].ret.chunks, th[t].overlap) # th[t].text

\* the most iterations the loop of chunk_text can take on text
MostIterations(text, chunk_size, overlap) ==
    IF chunk_size <= overlap \/ Len(text) = 0 THEN 1 ELSE Len(text)

\* C14: chunk_text returns in the end for every input: None, the empty
\* text, every chunk_size <= overlap and every chunk_size > overlap >= 0;
\* while chunk_size > overlap each iteration that does not return moves start
\* forward, and the loop takes no more iterations than text has characters
\* and returns no more chunks than that.
C14_ChunkTextTerminates ==
    /\ <>(\A t \in Threads : th[t].pc \in {"idle", "done"})
    /\ [](\A t \in Threads :
            th[t].op = "call_chunk_text"
            => /\ th[t].iters <= MostIterations(th[t].text, th[t].chunk_size,
                                                th[t].overlap)
               /\ Len(th[t].chunks) <= th[t].iters
               /\ th[t].pc = "ct_loop" => th[t].start >= 0)
    /\ [][\A t \in Threads :
            (th[t].pc = "ct_loop" /\ th'[t].pc = "ct_loop"
                /\ th'[t].iters # th[t].iters)
            => th'[t].start > th[t].start]_vars

\* C14's case: the loop has run as many iterations as text has characters
\* and has returned
C14_Witness ==
    \E t \in Threads :
        /\ ChunkReturned(t)
        /\ th[t].chunk_size > th[t].overlap
        /\ th[t].overlap >= 1
        /\ th[t].iters = Len(th[t].text)
        /\ th[t].iters >= 3

\* chunk_text runs, or has run, on thread t with overlap >= chunk_size > 0
\* and a text that is not empty
OverlapCoversChunk(t) ==
    /\ ChunkCall(t)
    /\ Len(th[t].text) > 0
    /\ th[t].chunk_size > 0
    /\ th[t].overlap >= th[t].chunk_size

\* C15 as claimed: with overlap >= chunk_size > 0 and a text that is not
\* empty chunk_text returns exactly one chunk.
C15_ExactlyOneChunk ==
    \A t \in Threads :
        (OverlapCoversChunk(t) /\ th[t].pc = "done")
        => Len(th[t].ret.chunks) = 1

\* C15 as amended: with overlap >= chunk_size > 0 and a text that is not
\* empty chunk_text runs one iteration and stops; it returns the stripped
\* first chunk_size characters as its only chunk, or no chunk when these are
\* all whitespace.
C15_OneIterationAtMostOneChunk ==
    \A t \in Threads :
        OverlapCoversChunk(t)
        => /\ th[t].iters <= 1
           /\ th[t].pc = "done"
              => /\ th[t].iters = 1
                 /\ LET first == strip(Slice(th[t].text, 0, th[t].chunk_size))
                    IN  th[t].ret.chunks
                            = IF first = <<>> THEN <<>> ELSE << first >>

\* C15's case: text goes on after the first chunk, which is not empty
C15_Witness ==
    \E t \in Threads :
        /\ OverlapCoversChunk(t)
        /\ th[t].pc = "done"
        /\ th[t].overlap = th[t].chunk_size
        /\ Len(th[t].text) > th[t].chunk_size
        /\ \E k \in (th[t].chunk_size + 1)..Len(th[t].text) :
               th[t].text[k] \notin Whitespace
        /\ Len(th[t].ret.chunks) = 1

\* the text load_pdf extracts from the file at path: the pages that gave
\* text, joined by blank lines
extracted_text(path) ==
    Join(pdf_text_parts(PdfFiles[basename(path)].pages), << "\n", "\n" >>)

\* thread t loads, or has loaded, a readable PDF file whose extracted text
\* has fewer than MIN_PDF_CHARS characters
LoadsShortPdf(t) ==
    /\ th[t].op = "upload_pdf"
    /\ PdfFiles[basename(th[t].file_path)].readable
    /\ Len(extracted_text(th[t].file_path)) < MIN_PDF_CHARS

\* C16: load_pdf of a file whose extracted text is under 100 characters
\* calls add_document at no time and writes no point, and returns status
\* "failed" with the error "Insufficient text extracted from PDF"; and
\* load_pdf raises for no failure: every failure gives a "failed" record.
C16_ShortPdfIsNotIngested ==
    \A t \in Threads :
        LET f == th[t] IN
        /\ LoadsShortPdf(t)
           => /\ f.ad_calls = 0 /\ f.embeds = 0 /\ f.upserts = 0
              /\ \A k \in 1..Len(points) : points[k].by[1] # f.call_id
              /\ (f.pc = "done" /\ f.fault = "")
                 => f.ret = [status |-> "failed",
                             error |-> "Insufficient text extracted from PDF"]
        /\ (f.op = "upload_pdf" /\ f.pc = "done")
           => /\ f.exc = ""
              /\ f.http = [code |-> 200, body |-> f.ret]
              /\ f.ret.status \in {"success", "failed"}
              /\ f.fault # "" => f.ret.status = "failed" /\ f.ret.error # ""

\* C16's case: a file of 99 characters of text, one under the threshold,
\* was refused while the store held points of an earlier request
C16_Witness ==
    \E t \in Threads :
        /\ LoadsShortPdf(t)
        /\ th[t].pc = "done"
        /\ Len(extracted_text(th[t].file_path)) = MIN_PDF_CHARS - 1
        /\ th[t].ret.status = "failed"
        /\ Len(points) > 0

\* C17: POST /update_predefined/{source} for a source that is no preset
\* answers 404 with the names of the presets and starts no run of
\* update_from_urls: no url is fetched and no point written for it; for a
\* preset it answers "started" and runs update_from_urls once, over the urls
\* of that preset.
C17_UnknownSourceIs404 ==
    \A t \in Threads :
        LET f == th[t] IN
        f.op = "update_predefined"
        => /\ f.source \notin {"fastapi", "langchain", "pydantic"}
              => /\ f.http.code = 404
                 /\ f.http.body.detail.available
                        = << "fastapi", "langchain", "pydantic" >>
                 /\ f.http.body.detail.source = f.source
                 /\ f.pc = "done"
                 /\ f.urls = <<>> /\ f.i = 0 /\ f.ad_calls = 0
                 /\ f.ret = NoRet
                 /\ \A k \in 1..Len(points) : points[k].by[1] # f.call_id
           /\ f.source \in {"fastapi", "langchain", "pydantic"}
              => /\ f.http = [code |-> 200,
                              body |-> [status |-> "started",
                                        source |-> f.source,
                                        urls |-> PREDEFINED_SOURCES[f.source]]]
                 /\ f.urls = PREDEFINED_SOURCES[f.source]
                 /\ f.i <= Len(f.urls)
                 /\ (f.pc = "done" /\ f.exc = "")
                    => /\ f.ret.total_urls = Len(f.urls)
                       /\ Len(f.ret.details) = Len(f.urls)

\* C17's case: a source that is no preset was asked for while the store
\* held the points of an earlier request
C17_Witness ==
    \E t \in Threads :
        /\ th[t].op = "update_predefined"
        /\ th[t].source = "unknown-source"
        /\ th[t].http.code = 404
        /\ Len(points) > 0

\* C18: get_collection_info raises nothing and GET /collection_info answers
\* 200: after an error of the client the record has status "error" and the
\* error text, and otherwise status "healthy" and the counts of points and
\* vectors of the collection at the time of the call.
C18_CollectionInfoNeverRaises ==
    /\ [](\A t \in Threads :
            LET f == th[t] IN
            f.op = "collection_info"
            => /\ f.pc = "done"
               /\ f.exc = ""
               /\ f.http = [code |-> 200, body |-> f.ret]
               /\ f.ret.name = COLLECTION_NAME
               /\ f.fault # ""
                  => /\ f.ret.status = "error"
                     /\ f.ret.error # ""
                     /\ DOMAIN f.ret = {"name", "status", "error"}
               /\ (f.fault = "" /\ COLLECTION_NAME \in collections)
                  => /\ f.ret.status = "healthy"
                     /\ DOMAIN f.ret = {"name", "vectors_count",
                                        "points_count", "status"})
    /\ [][\A t \in Threads :
            (th'[t] # th[t] /\ th'[t].op = "collection_info"
                /\ th'[t].ret.status = "healthy")
            => /\ th'[t].ret.points_count = Len(points)
               /\ th'[t].ret.vectors_count = Len(points)
               /\ points' = points]_vars

\* C18's case: the client raised while the collection held points
C18_Witness ==
    \E t \in Threads :
        /\ th[t].op = "collection_info"
        /\ th[t].pc = "done"
        /\ th[t].fault = "get_collection"
        /\ th[t].ret.status = "error"
        /\ Len(points) > 0

\* the points in the store that request id wrote
PointsOfRequest(id) == SelectSeq(points, LAMBDA p : p.by[1] = id)

\* C19: no step changes or removes a point of the store: the points there
\* stay, in place and with their payload, and new ones are added behind
\* them; the identifiers of the points differ; and a run of ingestion that
\* has returned has added as many points as it reports, whatever the store
\* held of the same source.
C19_PointsAreOnlyAdded ==
    /\ [][/\ Len(points') >= Len(points)
          /\ \A k \in 1..Len(points) : points'[k] = points[k]]_vars
    /\ [](\A j, k \in 1..Len(points) : j # k => points[j].id # points[k].id)
    /\ [](\A t \in Threads :
            LET f == th[t]
                mine == PointsOfRequest(f.call_id)
            IN  (f.pc = "done" /\ f.exc = "")
                => /\ (f.op \in UrlOps /\ f.ret # NoRet /\ f.fault = "")
                      => Len(mine) = f.ret.total_chunks
                   /\ (f.op = "add_doc" /\ f.http.code = 200)
                      => Len(mine) = f.http.body.chunks_added
                   /\ (f.op = "upload_pdf" /\ f.ret.status = "success")
                      => Len(mine) = f.ret.chunks_added)

\* C19's case: the daily job has ingested a page that a URL batch ingested
\* too, and the store holds the point of each
C19_Witness ==
    /\ \E t \in Threads : th[t].op = "scheduled_job" /\ th[t].pc = "done"
    /\ \E j, k \in 1..Len(points) :
           /\ j < k
           /\ points[j].payload = points[k].payload
           /\ points[j].payload.type = "web_page"
           /\ points[j].by[1] # points[k].by[1]
           /\ points[j].id # points[k].id

\* C20: whatever metadata add_document is given, the payload of each point
\* it stores has the chunk's text under "text" and the chunk's position in
\* the document under "chunk_index".
C20_MetadataCannotReplaceTextOrIndex ==
    \A t \in Threads :
        LET f == th[t]
            mine == PointsBy(CallOf(t))
        IN  f.op = "call_add_document"
            => \A k \in 1..Len(mine) :
                   /\ mine[k].payload.text = f.chunks[k]
                   /\ mine[k].payload.chunk_index = k - 1

====
